---- MODULE Spec2Model ----
(***************************************************************************)
(* withAuthUserTokenSSR (src/withAuthUserTokenSSR.js): the wrapper of a    *)
(* page's getServerSideProps that resolves the AuthUser of a request from  *)
(* a cookie, applies the redirect policy and otherwise evaluates the       *)
(* composed getServerSideProps and merges its props.                       *)
(*                                                                         *)
(* One request is one run of the async handler `async (ctx) => {...}`.     *)
(* Its position is pc[r]; each action is one statement group of the        *)
(* handler, cut at the calls to its collaborators (getCookie, JSON.parse,  *)
(* verifyIdToken, createAuthUser, getServerSidePropsFunc).                 *)
(***************************************************************************)
EXTENDS Integers, Sequences, FiniteSets, TLC

VARIABLES
    policy,             \* { whenAuthed, whenUnauthed, appPageURL, authPageURL }
    useToken,           \* second argument of withAuthUserTokenSSR
    hasProvider,        \* whether getServerSidePropsFunc was supplied
    config,             \* what getConfig() returns
    active,             \* the requests the framework hands to the handler
    pc,                 \* position of each request's handler
    cookieValStr,       \* const cookieValStr (either branch)
    creds,              \* const { idToken, refreshToken }
    AuthUser,           \* let AuthUser
    AuthUserSerialized, \* const AuthUserSerialized
    composedProps,      \* let composedProps
    ctxAuthUser,        \* ctx.AuthUser (NoUser while ctx has no such field)
    result,             \* the object the handler returns
    thrown,             \* the error the handler rejects with
    trace               \* calls the handler made to its collaborators, in order

vars == << policy, useToken, hasProvider, config, active, pc, cookieValStr,
           creds, AuthUser, AuthUserSerialized, composedProps, ctxAuthUser,
           result, thrown, trace >>

handlerVars == << policy, useToken, hasProvider, config, active >>

(***************************************************************************)
(* JavaScript values                                                       *)
(***************************************************************************)
Null == "<null>"
Undefined == "<undefined>"

\* ToBoolean on the values that occur here: strings, null, undefined.
Truthy(v) == v \notin {Null, Undefined, ""}

\* a || b
Or(a, b) == IF Truthy(a) THEN a ELSE b

\* The empty object {}.
EmptyObject == [k \in {} |-> ""]

\* { ...a, ...b }: the keys of b are written after those of a.
Spread(a, b) ==
    [k \in (DOMAIN a) \cup (DOMAIN b) |-> IF k \in DOMAIN b THEN b[k] ELSE a[k]]

(***************************************************************************)
(* AuthAction                                                              *)
(***************************************************************************)
RENDER == "render"
REDIRECT_TO_LOGIN == "redirectToLogin"
REDIRECT_TO_APP == "redirectToApp"

(***************************************************************************)
(* AuthUser objects (createAuthUser, AuthUser.serialize)                   *)
(***************************************************************************)
NoClaims == {}
AdminClaims == {<<"role", "admin">>}

UnauthedUser == [id |-> Null, claims |-> NoClaims, idTokenValue |-> Null]

\* let AuthUser, before its assignment.
NoUser == [id |-> Undefined, claims |-> NoClaims, idTokenValue |-> Undefined]

UserOf(id, claims, token) == [id |-> id, claims |-> claims, idTokenValue |-> token]

IdTokenValid == "idtok.alice.valid"
IdTokenExpired == "idtok.alice.expired"
IdTokenRefreshed == "idtok.alice.refreshed"
RefreshTokenValid == "rt.alice.valid"
RefreshTokenRevoked == "rt.alice.revoked"

\* Every AuthUser a request of the model can resolve to.
AuthUsers ==
    {UnauthedUser}
    \cup {UserOf("alice", AdminClaims, t) : t \in {Null, IdTokenValid, IdTokenRefreshed}}
    \cup {UserOf("bob", NoClaims, Null)}

\* JSON text of a string-or-null value.
JSONValue(v) == IF v = Null THEN "null" ELSE "\"" \o v \o "\""

JSONClaims(c) == IF c = NoClaims THEN "{}" ELSE "{\"role\":\"admin\"}"

\* AuthUser.serialize(): the JSON text of the user.
Serialize(u) ==
    "{\"id\":" \o JSONValue(u.id) \o ",\"claims\":" \o JSONClaims(u.claims)
        \o ",\"_token\":" \o JSONValue(u.idTokenValue) \o "}"

\* createAuthUser({ serializedAuthUser }): without a serialized user, the
\* unauthenticated AuthUser; with one, the user it is the text of.
createAuthUser(serializedAuthUser) ==
    IF ~Truthy(serializedAuthUser)
    THEN UnauthedUser
    ELSE CHOOSE u \in AuthUsers : Serialize(u) = serializedAuthUser

(***************************************************************************)
(* Cookies (getCookie)                                                     *)
(***************************************************************************)
TokensCookieName == "AuthUserTokens"
UserCookieName == "AuthUser"

NoCookie == [present |-> FALSE, payload |-> "", sigOK |-> FALSE]

Cookie(payload, sigOK) == [present |-> TRUE, payload |-> payload, sigOK |-> sigOK]

\* getCookie(name, { req, res }, { keys, secure, signed }): the payload of the
\* request's cookie, or undefined when the cookie is missing or, for a signed
\* cookie, when no key verifies its signature.
getCookie(cookie, cookiesConfig) ==
    IF ~cookie.present THEN Undefined
    ELSE IF cookiesConfig.signed /\ ~cookie.sigOK THEN Undefined
    ELSE cookie.payload

(***************************************************************************)
(* JSON.parse of the tokens cookie                                         *)
(***************************************************************************)
\* The objects a tokens cookie of the model can be the JSON text of.
CredentialObjects ==
    [idToken : {Undefined, "", IdTokenValid, IdTokenExpired},
     refreshToken : {Undefined, RefreshTokenValid, RefreshTokenRevoked}]

JSONField(name, v, first) ==
    IF v = Undefined THEN ""
    ELSE (IF first THEN "" ELSE ",") \o "\"" \o name \o "\":" \o JSONValue(v)

\* JSON.stringify({ idToken, refreshToken }): undefined fields are left out.
JSONStringify(o) ==
    "{" \o JSONField("idToken", o.idToken, TRUE)
        \o JSONField("refreshToken", o.refreshToken, o.idToken = Undefined)
        \o "}"

\* JSON.parse(text): an object, the value null, or a SyntaxError.
JSONParse(text) ==
    IF \E o \in CredentialObjects : JSONStringify(o) = text
    THEN [kind |-> "object",
          value |-> CHOOSE o \in CredentialObjects : JSONStringify(o) = text]
    ELSE IF text = "null"
    THEN [kind |-> "null", value |-> [idToken |-> Undefined, refreshToken |-> Undefined]]
    ELSE [kind |-> "SyntaxError",
          value |-> [idToken |-> Undefined, refreshToken |-> Undefined]]

(***************************************************************************)
(* verifyIdToken                                                           *)
(***************************************************************************)
VerifyOk(user) == [ok |-> TRUE, user |-> user]
VerifyFailed == [ok |-> FALSE, user |-> UnauthedUser]

\* verifyIdToken(idToken, refreshToken): the outcomes the identity provider
\* can give. A valid id token decodes to its user; an expired one is
\* exchanged once for a new id token when a refresh token is present, and
\* the exchange fails for a revoked token or an unreachable provider.
verifyIdToken(idToken, refreshToken) ==
    IF idToken = IdTokenValid
    THEN {VerifyOk(UserOf("alice", AdminClaims, IdTokenValid))}
    ELSE IF refreshToken = RefreshTokenValid
    THEN {VerifyOk(UserOf("alice", AdminClaims, IdTokenRefreshed)), VerifyFailed}
    ELSE {VerifyFailed}


(***************************************************************************)
(* Inputs: the requests' cookies, the policies, the configurations and     *)
(* the results of the composed getServerSideProps                          *)
(***************************************************************************)
Requests == {"r1", "r2"}

PolicyURLs(url) == {Null, "", url}
ConfigURLs(url) == {Undefined, "", url}

Policies ==
    [whenAuthed : {RENDER, REDIRECT_TO_APP},
     whenUnauthed : {RENDER, REDIRECT_TO_LOGIN},
     appPageURL : PolicyURLs("/app"),
     authPageURL : PolicyURLs("/login")]

Configs ==
    [cookies : [signed : BOOLEAN],
     authPageURL : ConfigURLs("/auth"),
     appPageURL : ConfigURLs("/")]

TokenObjects ==
    { [idToken |-> Undefined, refreshToken |-> Undefined],
      [idToken |-> Undefined, refreshToken |-> RefreshTokenValid],
      [idToken |-> "", refreshToken |-> RefreshTokenValid],
      [idToken |-> IdTokenValid, refreshToken |-> Undefined],
      [idToken |-> IdTokenValid, refreshToken |-> RefreshTokenValid],
      [idToken |-> IdTokenExpired, refreshToken |-> RefreshTokenValid],
      [idToken |-> IdTokenExpired, refreshToken |-> RefreshTokenRevoked] }

MalformedPayload == "{\"idToken\":"

TokenPayloads ==
    {"", MalformedPayload, "null"} \cup {JSONStringify(o) : o \in TokenObjects}

\* The tokens cookie a request can carry: none, one whose signature does not
\* verify, or a signed one.
TokenCookies ==
    {NoCookie,
     Cookie(JSONStringify([idToken |-> IdTokenValid,
                           refreshToken |-> RefreshTokenValid]), FALSE)}
    \cup {Cookie(p, TRUE) : p \in TokenPayloads}

UserPayloads ==
    {"", Serialize(UserOf("alice", AdminClaims, Null)),
         Serialize(UserOf("bob", NoClaims, Null))}

UserCookies ==
    {NoCookie, Cookie(Serialize(UserOf("alice", AdminClaims, Null)), FALSE)}
    \cup {Cookie(p, TRUE) : p \in UserPayloads}

ReservedKey == "AuthUserSerialized"
ForgedValue == Serialize(UserOf("bob", NoClaims, Null))

\* What the composed getServerSideProps can resolve to.
ProviderResults ==
    { EmptyObject,
      [foo |-> "bar"],
      [AuthUserSerialized |-> ForgedValue],
      [AuthUserSerialized |-> ForgedValue, foo |-> "bar"] }

NoCreds == [idToken |-> Undefined, refreshToken |-> Undefined]

(***************************************************************************)
(* The handler                                                             *)
(***************************************************************************)
\* withAuthUserTokenSSR(policy, { useToken })(getServerSidePropsFunc) has
\* built the handler and getConfig() is set; the framework hands it the
\* requests of `active`, none of which has started.
Init ==
    /\ policy \in Policies
    /\ useToken \in BOOLEAN
    /\ hasProvider \in BOOLEAN
    /\ config \in Configs
    /\ active = {"r1"}
    /\ pc = [r \in Requests |-> "idle"]
    /\ cookieValStr = [r \in Requests |-> Undefined]
    /\ creds = [r \in Requests |-> NoCreds]
    /\ AuthUser = [r \in Requests |-> NoUser]
    /\ AuthUserSerialized = [r \in Requests |-> Undefined]
    /\ composedProps = [r \in Requests |-> EmptyObject]
    /\ ctxAuthUser = [r \in Requests |-> NoUser]
    /\ result = [r \in Requests |-> EmptyObject]
    /\ thrown = [r \in Requests |-> Null]
    /\ trace = [r \in Requests |-> << >>]

Goto(r, label) == pc' = [pc EXCEPT ![r] = label]

Call(r, event) == trace' = [trace EXCEPT ![r] = Append(@, event)]

\* An error thrown inside the async handler and caught nowhere in it: the
\* promise the handler returned rejects with it.
Throw(r, error) ==
    /\ Goto(r, "rejected")
    /\ thrown' = [thrown EXCEPT ![r] = error]

\* A slip of lines 97-99 and 110-112: the redirect is built and the return
\* is missing, so the handler goes on to the composed getServerSideProps.
RedirectWithoutReturn(r, destination) ==
    /\ Goto(r, "render")
    /\ result' = [result EXCEPT
                    ![r] = [redirect |-> [destination |-> destination,
                                          permanent |-> FALSE]]]

\* return { redirect: { destination, permanent: false } }
Redirect(r, destination) ==
    /\ Goto(r, "done")
    /\ result' = [result EXCEPT
                    ![r] = [redirect |-> [destination |-> destination,
                                          permanent |-> FALSE]]]

\* async (ctx) => { const { req, res } = ctx; const { keys, secure, signed } = ...
StartRequest(r) ==
    /\ r \in active
    /\ pc[r] = "idle"
    /\ Goto(r, "getCookie")
    /\ UNCHANGED << handlerVars, cookieValStr, creds, AuthUser, AuthUserSerialized,
                    composedProps, ctxAuthUser, result, thrown, trace >>

\* A slip of line 53: the tokens cookie is read whatever the mode.
GetTokensCookieAnyMode(r) ==
    /\ pc[r] = "getCookie"
    /\ \E cookie \in TokenCookies :
         cookieValStr' = [cookieValStr EXCEPT ![r] = getCookie(cookie, config.cookies)]
    /\ Call(r, "getCookie:" \o TokensCookieName)
    /\ Goto(r, "parse")
    /\ UNCHANGED << handlerVars, creds, AuthUser, AuthUserSerialized,
                    composedProps, ctxAuthUser, result, thrown >>

\* if (useToken) { const cookieValStr = getCookie(getAuthUserTokensCookieName(), ...)
GetTokensCookie(r) ==
    /\ pc[r] = "getCookie"
    /\ useToken
    /\ \E cookie \in TokenCookies :
         cookieValStr' = [cookieValStr EXCEPT ![r] = getCookie(cookie, config.cookies)]
    /\ Call(r, "getCookie:" \o TokensCookieName)
    /\ Goto(r, "parse")
    /\ UNCHANGED << handlerVars, creds, AuthUser, AuthUserSerialized,
                    composedProps, ctxAuthUser, result, thrown >>

\* const { idToken, refreshToken } = cookieValStr ? JSON.parse(cookieValStr) : {}
ParseCredentials(r) ==
    /\ pc[r] = "parse"
    /\ IF ~Truthy(cookieValStr[r])
       THEN /\ creds' = [creds EXCEPT ![r] = NoCreds]
            /\ Goto(r, "branch")
            /\ UNCHANGED << thrown, trace >>
       ELSE LET parsed == JSONParse(cookieValStr[r]) IN
            /\ Call(r, "JSON.parse")
            /\ CASE parsed.kind = "SyntaxError" ->
                      \* JSON.parse throws
                      /\ Throw(r, "SyntaxError")
                      /\ UNCHANGED creds
                 [] parsed.kind = "null" ->
                      \* destructuring null throws
                      /\ Throw(r, "TypeError")
                      /\ UNCHANGED creds
                 [] OTHER ->
                      /\ creds' = [creds EXCEPT ![r] = parsed.value]
                      /\ Goto(r, "branch")
                      /\ UNCHANGED thrown
    /\ UNCHANGED << handlerVars, cookieValStr, AuthUser, AuthUserSerialized,
                    composedProps, ctxAuthUser, result >>

\* A slip of the test of line 67: if (idToken !== null)
HasIdTokenNotNull(c) == c.idToken # Null

\* A slip of the test of line 67: if (idToken || refreshToken)
HasAnyToken(c) == Truthy(c.idToken) \/ Truthy(c.refreshToken)

\* if (idToken)
HasIdToken(c) == Truthy(c.idToken)

\* AuthUser = await verifyIdToken(idToken, refreshToken): the call
CallVerifyIdToken(r) ==
    /\ pc[r] = "branch"
    /\ HasIdToken(creds[r])
    /\ Call(r, "verifyIdToken:call")
    /\ Goto(r, "verifying")
    /\ UNCHANGED << handlerVars, cookieValStr, creds, AuthUser, AuthUserSerialized,
                    composedProps, ctxAuthUser, result, thrown >>

\* A slip of line 45: `let AuthUser` stands outside the handler, so that
\* all requests assign the one variable.
VerifyIdTokenSettlesShared(r) ==
    /\ pc[r] = "verifying"
    /\ \E outcome \in verifyIdToken(creds[r].idToken, creds[r].refreshToken) :
         IF outcome.ok
         THEN /\ AuthUser' = [q \in Requests |-> outcome.user]
              /\ Call(r, "verifyIdToken:resolved")
              /\ Goto(r, "serialize")
              /\ UNCHANGED thrown
         ELSE /\ Call(r, "verifyIdToken:rejected")
              /\ Throw(r, "AuthVerificationError")
              /\ UNCHANGED AuthUser
    /\ UNCHANGED << handlerVars, cookieValStr, creds, AuthUserSerialized,
                    composedProps, ctxAuthUser, result >>

\* A slip of line 68: a rejected verifyIdToken is called again.
VerifyIdTokenSettlesRetrying(r) ==
    /\ pc[r] = "verifying"
    /\ \E outcome \in verifyIdToken(creds[r].idToken, creds[r].refreshToken) :
         IF outcome.ok
         THEN /\ AuthUser' = [AuthUser EXCEPT ![r] = outcome.user]
              /\ Call(r, "verifyIdToken:resolved")
              /\ Goto(r, "serialize")
         ELSE /\ Call(r, "verifyIdToken:rejected")
              /\ Goto(r, "branch")
              /\ UNCHANGED AuthUser
    /\ UNCHANGED << handlerVars, cookieValStr, creds, AuthUserSerialized,
                    composedProps, ctxAuthUser, result, thrown >>

\* AuthUser = await verifyIdToken(idToken, refreshToken): the promise settles.
\* The await stands in no try block, so a rejection leaves the handler.
VerifyIdTokenSettles(r) ==
    /\ pc[r] = "verifying"
    /\ \E outcome \in verifyIdToken(creds[r].idToken, creds[r].refreshToken) :
         IF outcome.ok
         THEN /\ AuthUser' = [AuthUser EXCEPT ![r] = outcome.user]
              /\ Call(r, "verifyIdToken:resolved")
              /\ Goto(r, "serialize")
              /\ UNCHANGED thrown
         ELSE /\ Call(r, "verifyIdToken:rejected")
              /\ Throw(r, "AuthVerificationError")
              /\ UNCHANGED AuthUser
    /\ UNCHANGED << handlerVars, cookieValStr, creds, AuthUserSerialized,
                    composedProps, ctxAuthUser, result >>

\* else { AuthUser = createAuthUser() }
CreateUnauthedUser(r) ==
    /\ pc[r] = "branch"
    /\ ~HasIdToken(creds[r])
    /\ AuthUser' = [AuthUser EXCEPT ![r] = createAuthUser(Undefined)]
    /\ Call(r, "createAuthUser")
    /\ Goto(r, "serialize")
    /\ UNCHANGED << handlerVars, cookieValStr, creds, AuthUserSerialized,
                    composedProps, ctxAuthUser, result, thrown >>

\* else { const cookieValStr = getCookie(getAuthUserCookieName(), ...)
\*        AuthUser = createAuthUser({ serializedAuthUser: cookieValStr }) }
GetUserCookie(r) ==
    /\ pc[r] = "getCookie"
    /\ ~useToken
    /\ \E cookie \in UserCookies :
         LET val == getCookie(cookie, config.cookies) IN
         /\ cookieValStr' = [cookieValStr EXCEPT ![r] = val]
         /\ AuthUser' = [AuthUser EXCEPT ![r] = createAuthUser(val)]
    /\ trace' = [trace EXCEPT
                   ![r] = @ \o << "getCookie:" \o UserCookieName, "createAuthUser" >>]
    /\ Goto(r, "serialize")
    /\ UNCHANGED << handlerVars, creds, AuthUserSerialized,
                    composedProps, ctxAuthUser, result, thrown >>

\* A slip of lines 87 and 120: ctx.AuthUser is set as soon as the AuthUser
\* is there, before the redirect checks.
SerializeAuthUserAndInject(r) ==
    /\ pc[r] = "serialize"
    /\ AuthUserSerialized' = [AuthUserSerialized EXCEPT ![r] = Serialize(AuthUser[r])]
    /\ ctxAuthUser' = [ctxAuthUser EXCEPT ![r] = AuthUser[r]]
    /\ Goto(r, "checkUnauthed")
    /\ UNCHANGED << handlerVars, cookieValStr, creds, AuthUser,
                    composedProps, result, thrown, trace >>

\* const AuthUserSerialized = AuthUser.serialize()
SerializeAuthUser(r) ==
    /\ pc[r] = "serialize"
    /\ AuthUserSerialized' = [AuthUserSerialized EXCEPT ![r] = Serialize(AuthUser[r])]
    /\ Goto(r, "checkUnauthed")
    /\ UNCHANGED << handlerVars, cookieValStr, creds, AuthUser,
                    composedProps, ctxAuthUser, result, thrown, trace >>


\* A slip of line 90: the test of AuthUser.id is missing.
ShouldRedirectToLoginAnyUser(user, p) == p.whenUnauthed = REDIRECT_TO_LOGIN

\* if (!AuthUser.id && whenUnauthed === AuthAction.REDIRECT_TO_LOGIN)
ShouldRedirectToLogin(user, p) ==
    ~Truthy(user.id) /\ p.whenUnauthed = REDIRECT_TO_LOGIN

\* A slip of line 91: the global default is taken before the policy's URL.
AuthRedirectDestinationGlobalFirst(p, c) == Or(c.authPageURL, p.authPageURL)

\* A slip of lines 91-96: a destination is made up when none is configured.
AuthRedirectDestinationGuessed(p, c) == Or(Or(p.authPageURL, c.authPageURL), "/")

\* const authRedirectDestination = authPageURL || getConfig().authPageURL
AuthRedirectDestination(p, c) == Or(p.authPageURL, c.authPageURL)

\* A slip of line 103: the test of AuthUser.id is missing.
ShouldRedirectToAppAnyUser(user, p) == p.whenAuthed = REDIRECT_TO_APP

\* if (AuthUser.id && whenAuthed === AuthAction.REDIRECT_TO_APP)
ShouldRedirectToApp(user, p) ==
    Truthy(user.id) /\ p.whenAuthed = REDIRECT_TO_APP

\* A slip of line 104: the global default is taken before the policy's URL.
AppRedirectDestinationGlobalFirst(p, c) == Or(c.appPageURL, p.appPageURL)

\* const appRedirectDestination = appPageURL || getConfig().appPageURL
AppRedirectDestination(p, c) == Or(p.appPageURL, c.appPageURL)

\* A slip of lines 92 and 105: if (destination == null)
DestinationNullish(destination) == destination \in {Null, Undefined}

\* if (!authRedirectDestination), if (!appRedirectDestination)
DestinationMissing(destination) == ~Truthy(destination)

AuthPageURLError == "Error: \"authPageURL\" must be set"
AppPageURLError == "Error: \"appPageURL\" must be set"

\* If specified, redirect to the login page if the user is unauthed.
CheckUnauthed(r) ==
    /\ pc[r] = "checkUnauthed"
    /\ Call(r, "checkUnauthed")
    /\ IF ShouldRedirectToLogin(AuthUser[r], policy)
       THEN LET destination == AuthRedirectDestination(policy, config) IN
            IF DestinationMissing(destination)
            THEN /\ Throw(r, AuthPageURLError)
                 /\ UNCHANGED result
            ELSE /\ Redirect(r, destination)
                 /\ UNCHANGED thrown
       ELSE /\ Goto(r, "checkAuthed")
            /\ UNCHANGED << result, thrown >>
    /\ UNCHANGED << handlerVars, cookieValStr, creds, AuthUser, AuthUserSerialized,
                    composedProps, ctxAuthUser >>

\* If specified, redirect to the app page if the user is authed.
CheckAuthed(r) ==
    /\ pc[r] = "checkAuthed"
    /\ Call(r, "checkAuthed")
    /\ IF ShouldRedirectToApp(AuthUser[r], policy)
       THEN LET destination == AppRedirectDestination(policy, config) IN
            IF DestinationMissing(destination)
            THEN /\ Throw(r, AppPageURLError)
                 /\ UNCHANGED result
            ELSE /\ Redirect(r, destination)
                 /\ UNCHANGED thrown
       ELSE /\ Goto(r, "render")
            /\ UNCHANGED << result, thrown >>
    /\ UNCHANGED << handlerVars, cookieValStr, creds, AuthUser, AuthUserSerialized,
                    composedProps, ctxAuthUser >>

\* A slip of lines 87-121: the composed getServerSideProps is started as
\* soon as the AuthUser is there, before the redirect checks.
InvokeProviderBeforeChecks(r) ==
    /\ pc[r] \in {"checkUnauthed", "render"}
    /\ hasProvider
    /\ ctxAuthUser' = [ctxAuthUser EXCEPT ![r] = AuthUser[r]]
    /\ Call(r, "getServerSidePropsFunc:call")
    /\ Goto(r, "awaitProvider")
    /\ UNCHANGED << handlerVars, cookieValStr, creds, AuthUser, AuthUserSerialized,
                    composedProps, result, thrown >>

\* if (getServerSidePropsFunc) { ctx.AuthUser = AuthUser
\*   composedProps = await getServerSidePropsFunc(ctx): the call
InvokeProvider(r) ==
    /\ pc[r] = "render"
    /\ hasProvider
    /\ ctxAuthUser' = [ctxAuthUser EXCEPT ![r] = AuthUser[r]]
    /\ Call(r, "getServerSidePropsFunc:call")
    /\ Goto(r, "awaitProvider")
    /\ UNCHANGED << handlerVars, cookieValStr, creds, AuthUser, AuthUserSerialized,
                    composedProps, result, thrown >>

\* composedProps = await getServerSidePropsFunc(ctx): the promise resolves
ProviderResolves(r) ==
    /\ pc[r] = "awaitProvider"
    /\ \E props \in ProviderResults :
         composedProps' = [composedProps EXCEPT ![r] = props]
    /\ Call(r, "getServerSidePropsFunc:resolved")
    /\ Goto(r, "return")
    /\ UNCHANGED << handlerVars, cookieValStr, creds, AuthUser, AuthUserSerialized,
                    ctxAuthUser, result, thrown >>

\* let composedProps = {}; if (getServerSidePropsFunc) is false
SkipProvider(r) ==
    /\ pc[r] = "render"
    /\ ~hasProvider
    /\ composedProps' = [composedProps EXCEPT ![r] = EmptyObject]
    /\ Goto(r, "return")
    /\ UNCHANGED << handlerVars, cookieValStr, creds, AuthUser, AuthUserSerialized,
                    ctxAuthUser, result, thrown, trace >>

\* { AuthUserSerialized, ...composedProps }
MergedProps(serialized, composed) ==
    Spread([AuthUserSerialized |-> serialized], composed)

\* return { props: { AuthUserSerialized, ...composedProps } }
ReturnProps(r) ==
    /\ pc[r] = "return"
    /\ result' = [result EXCEPT
                    ![r] = [props |-> MergedProps(AuthUserSerialized[r],
                                                  composedProps[r])]]
    /\ Goto(r, "done")
    /\ UNCHANGED << handlerVars, cookieValStr, creds, AuthUser, AuthUserSerialized,
                    composedProps, ctxAuthUser, thrown, trace >>

Next ==
    \E r \in Requests :
        \/ StartRequest(r)
        \/ GetTokensCookie(r)
        \/ ParseCredentials(r)
        \/ CallVerifyIdToken(r)
        \/ VerifyIdTokenSettles(r)
        \/ CreateUnauthedUser(r)
        \/ GetUserCookie(r)
        \/ SerializeAuthUser(r)
        \/ CheckUnauthed(r)
        \/ CheckAuthed(r)
        \/ InvokeProvider(r)
        \/ ProviderResolves(r)
        \/ SkipProvider(r)
        \/ ReturnProps(r)

Spec == Init /\ [][Next]_vars

(***************************************************************************)
(* Concurrent requests: the framework calls the one handler for both       *)
(* requests, and their steps interleave at will.                           *)
(***************************************************************************)
ConcurrentPolicies ==
    [whenAuthed : {RENDER, REDIRECT_TO_APP},
     whenUnauthed : {RENDER, REDIRECT_TO_LOGIN},
     appPageURL : {Null},
     authPageURL : {"/login"}]

ConcurrentConfigs ==
    [cookies : [signed : {TRUE}],
     authPageURL : {Undefined},
     appPageURL : {Undefined, "/"}]

InitConcurrent ==
    /\ policy \in ConcurrentPolicies
    /\ useToken \in BOOLEAN
    /\ hasProvider \in BOOLEAN
    /\ config \in ConcurrentConfigs
    /\ active = Requests
    /\ pc = [r \in Requests |-> "idle"]
    /\ cookieValStr = [r \in Requests |-> Undefined]
    /\ creds = [r \in Requests |-> NoCreds]
    /\ AuthUser = [r \in Requests |-> NoUser]
    /\ AuthUserSerialized = [r \in Requests |-> Undefined]
    /\ composedProps = [r \in Requests |-> EmptyObject]
    /\ ctxAuthUser = [r \in Requests |-> NoUser]
    /\ result = [r \in Requests |-> EmptyObject]
    /\ thrown = [r \in Requests |-> Null]
    /\ trace = [r \in Requests |-> << >>]

SpecConcurrent == InitConcurrent /\ [][Next]_vars

(***************************************************************************)
(* The handler run alone, as a function of what the request brings: the    *)
(* value of its cookie, whether its verifyIdToken call succeeds, and what  *)
(* the composed getServerSideProps resolves to.                            *)
(***************************************************************************)
Outcome(res, err, ctxUser) == [result |-> res, thrown |-> err, ctxAuthUser |-> ctxUser]

\* Lines 53-86: the AuthUser, or the error that leaves the handler.
ResolveAlone(cookieVal, verifyOk) ==
    IF useToken
    THEN LET parsed == IF Truthy(cookieVal)
                       THEN JSONParse(cookieVal)
                       ELSE [kind |-> "object", value |-> NoCreds]
         IN  CASE parsed.kind = "SyntaxError" -> [thrown |-> "SyntaxError", user |-> NoUser]
               [] parsed.kind = "null" -> [thrown |-> "TypeError", user |-> NoUser]
               [] OTHER ->
                    IF ~HasIdToken(parsed.value)
                    THEN [thrown |-> Null, user |-> createAuthUser(Undefined)]
                    ELSE LET outcomes == verifyIdToken(parsed.value.idToken,
                                                       parsed.value.refreshToken)
                         IN  IF verifyOk /\ \E o \in outcomes : o.ok
                             THEN [thrown |-> Null,
                                   user |-> (CHOOSE o \in outcomes : o.ok).user]
                             ELSE [thrown |-> "AuthVerificationError", user |-> NoUser]
    ELSE [thrown |-> Null, user |-> createAuthUser(cookieVal)]

\* Lines 87-129 for a resolved AuthUser.
RenderAlone(user, providerResult) ==
    IF ShouldRedirectToLogin(user, policy)
    THEN LET destination == AuthRedirectDestination(policy, config) IN
         IF DestinationMissing(destination)
         THEN Outcome(EmptyObject, AuthPageURLError, NoUser)
         ELSE Outcome([redirect |-> [destination |-> destination, permanent |-> FALSE]],
                      Null, NoUser)
    ELSE IF ShouldRedirectToApp(user, policy)
    THEN LET destination == AppRedirectDestination(policy, config) IN
         IF DestinationMissing(destination)
         THEN Outcome(EmptyObject, AppPageURLError, NoUser)
         ELSE Outcome([redirect |-> [destination |-> destination, permanent |-> FALSE]],
                      Null, NoUser)
    ELSE IF hasProvider
    THEN Outcome([props |-> MergedProps(Serialize(user), providerResult)], Null, user)
    ELSE Outcome([props |-> MergedProps(Serialize(user), EmptyObject)], Null, NoUser)

\* The whole handler, lines 40-129.
HandleAlone(cookieVal, verifyOk, providerResult) ==
    LET resolved == ResolveAlone(cookieVal, verifyOk) IN
    IF resolved.thrown # Null
    THEN Outcome(EmptyObject, resolved.thrown, NoUser)
    ELSE RenderAlone(resolved.user, providerResult)

(***************************************************************************)
(* Observations on a request                                               *)
(***************************************************************************)
Occurs(r, event) == \E i \in DOMAIN trace[r] : trace[r][i] = event

Count(r, event) == Cardinality({i \in DOMAIN trace[r] : trace[r][i] = event})

\* Position of the first occurrence of an event that occurs.
Pos(r, event) ==
    CHOOSE i \in DOMAIN trace[r] :
        /\ trace[r][i] = event
        /\ \A j \in DOMAIN trace[r] : trace[r][j] = event => i <= j

Finished(r) == pc[r] \in {"done", "rejected"}

\* The handler has assigned AuthUser.
Resolved(r) == AuthUser[r] # NoUser

\* The handler is past the statements that resolve the AuthUser (lines 53-86).
PastResolution(r) == pc[r] \notin {"idle", "getCookie", "parse", "branch", "verifying"}

VerifierCalled(r) == Occurs(r, "verifyIdToken:call")

ProviderCalled(r) == Occurs(r, "getServerSidePropsFunc:call")

CookieRead(r) ==
    \/ Occurs(r, "getCookie:" \o TokensCookieName)
    \/ Occurs(r, "getCookie:" \o UserCookieName)

IsRedirect(r) == pc[r] = "done" /\ DOMAIN result[r] = {"redirect"}

IsProps(r) == pc[r] = "done" /\ DOMAIN result[r] = {"props"}

(***************************************************************************)
(* C1                                                                      *)
(***************************************************************************)
\* C1: in token mode, when verifyIdToken fails for the id token of the
\* cookie, the handler catches the failure and goes on with the
\* unauthenticated AuthUser: the request is never rejected with the
\* verifier's error, and it goes on to the redirect checks as an anonymous
\* request.
C1_VerifierFailureCaught ==
    \A r \in Requests :
        Occurs(r, "verifyIdToken:rejected") =>
            /\ thrown[r] # "AuthVerificationError"
            /\ AuthUser[r] = UnauthedUser
            /\ PastResolution(r)

(***************************************************************************)
(* C2                                                                      *)
(***************************************************************************)
\* The tokens cookie was read, is present and is not JSON text.
MalformedCookie(r) ==
    /\ useToken
    /\ CookieRead(r)
    /\ Truthy(cookieValStr[r])
    /\ JSONParse(cookieValStr[r]).kind = "SyntaxError"

\* C2: in token mode, a tokens cookie whose payload is not JSON text is
\* treated as an absent credential: the parsing failure does not leave the
\* handler, verifyIdToken is not called and the request is resolved with the
\* unauthenticated AuthUser.
C2_MalformedPayloadIsAbsent ==
    \A r \in Requests :
        MalformedCookie(r) =>
            /\ thrown[r] # "SyntaxError"
            /\ ~VerifierCalled(r)
            /\ PastResolution(r) => AuthUser[r] = UnauthedUser

(***************************************************************************)
(* C3                                                                      *)
(***************************************************************************)
\* C3: the props of every props result hold the reserved key, and its value
\* is the serialization of the AuthUser resolved for the request, whatever
\* the composed getServerSideProps returned.
C3_ReservedKeyKept ==
    \A r \in Requests :
        IsProps(r) =>
            /\ ReservedKey \in DOMAIN result[r].props
            /\ result[r].props[ReservedKey] = Serialize(AuthUser[r])

(***************************************************************************)
(* C4                                                                      *)
(***************************************************************************)
\* getCookie returned undefined: the cookie is missing or its signature
\* did not verify.
CookieAbsent(r) == CookieRead(r) /\ cookieValStr[r] = Undefined

\* C4: when getCookie returns no cookie, in token mode and in snapshot mode,
\* verifyIdToken is never called during the request and the AuthUser the
\* request is resolved with is the unauthenticated one.
C4_AbsentCookieIsAnonymous ==
    \A r \in Requests :
        CookieAbsent(r) =>
            /\ ~VerifierCalled(r)
            /\ pc[r] # "verifying"
            /\ AuthUser[r] \in {NoUser, UnauthedUser}
            /\ thrown[r] \notin {"SyntaxError", "TypeError", "AuthVerificationError"}
            /\ PastResolution(r) => AuthUser[r] = UnauthedUser

\* A token-mode request without a usable cookie that rendered as anonymous.
C4_Witness ==
    \E r \in Requests :
        /\ useToken
        /\ CookieAbsent(r)
        /\ IsProps(r)
        /\ AuthUser[r] = UnauthedUser

(***************************************************************************)
(* C5                                                                      *)
(***************************************************************************)
\* The request was resolved to the unauthenticated AuthUser.
Anonymous(r) == Resolved(r) /\ AuthUser[r].id = Null

\* The request was resolved to an authenticated AuthUser.
Authenticated(r) == Resolved(r) /\ Truthy(AuthUser[r].id)

RedirectsTo(r, url) ==
    /\ IsRedirect(r)
    /\ result[r].redirect.destination = url

\* C5: a finished request resolved to an anonymous AuthUser under
\* whenUnauthed = REDIRECT_TO_LOGIN is a redirect to the policy's
\* authPageURL when that is set, and otherwise to the configured global
\* authPageURL when that is set; it is a redirect to nothing else.
C5_LoginRedirectDestination ==
    \A r \in Requests :
        (Finished(r) /\ Anonymous(r) /\ policy.whenUnauthed = REDIRECT_TO_LOGIN) =>
            IF Truthy(policy.authPageURL)
            THEN RedirectsTo(r, policy.authPageURL)
            ELSE IF Truthy(config.authPageURL)
            THEN RedirectsTo(r, config.authPageURL)
            ELSE ~IsRedirect(r)

\* An anonymous request sent to the policy's login URL although a different
\* global login URL is configured.
C5_Witness ==
    \E r \in Requests :
        /\ Anonymous(r)
        /\ policy.whenUnauthed = REDIRECT_TO_LOGIN
        /\ Truthy(policy.authPageURL)
        /\ Truthy(config.authPageURL)
        /\ policy.authPageURL # config.authPageURL
        /\ RedirectsTo(r, policy.authPageURL)

(***************************************************************************)
(* C6                                                                      *)
(***************************************************************************)
\* C6: a finished request resolved to an authenticated AuthUser under
\* whenAuthed = REDIRECT_TO_APP is a redirect to the policy's appPageURL
\* when that is set, and otherwise to the configured global appPageURL when
\* that is set; it is a redirect to nothing else.
C6_AppRedirectDestination ==
    \A r \in Requests :
        (Finished(r) /\ Authenticated(r) /\ policy.whenAuthed = REDIRECT_TO_APP) =>
            IF Truthy(policy.appPageURL)
            THEN RedirectsTo(r, policy.appPageURL)
            ELSE IF Truthy(config.appPageURL)
            THEN RedirectsTo(r, config.appPageURL)
            ELSE ~IsRedirect(r)

\* An authenticated request sent to the global app URL because the policy
\* sets none.
C6_Witness ==
    \E r \in Requests :
        /\ Authenticated(r)
        /\ policy.whenAuthed = REDIRECT_TO_APP
        /\ ~Truthy(policy.appPageURL)
        /\ Truthy(config.appPageURL)
        /\ RedirectsTo(r, config.appPageURL)

(***************************************************************************)
(* C7                                                                      *)
(***************************************************************************)
\* The policy asks to redirect the anonymous request to a login URL that
\* neither the policy nor the configuration gives.
LoginURLMissing(r) ==
    /\ Anonymous(r)
    /\ policy.whenUnauthed = REDIRECT_TO_LOGIN
    /\ ~Truthy(policy.authPageURL)
    /\ ~Truthy(config.authPageURL)

\* The policy asks to redirect the authenticated request to an app URL that
\* neither the policy nor the configuration gives.
AppURLMissing(r) ==
    /\ Authenticated(r)
    /\ policy.whenAuthed = REDIRECT_TO_APP
    /\ ~Truthy(policy.appPageURL)
    /\ ~Truthy(config.appPageURL)

\* C7: when the policy mandates a redirect for the resolved AuthUser and
\* no URL is configured for it, the request ends in the configuration
\* error: it returns neither a redirect nor props, and the composed
\* getServerSideProps is not called.
C7_MissingURLIsFatal ==
    \A r \in Requests :
        /\ LoginURLMissing(r) =>
              /\ result[r] = EmptyObject
              /\ ~ProviderCalled(r)
              /\ Finished(r) => (pc[r] = "rejected" /\ thrown[r] = AuthPageURLError)
        /\ AppURLMissing(r) =>
              /\ result[r] = EmptyObject
              /\ ~ProviderCalled(r)
              /\ Finished(r) => (pc[r] = "rejected" /\ thrown[r] = AppPageURLError)

\* An anonymous request rejected because no login URL is configured.
C7_Witness ==
    \E r \in Requests :
        /\ LoginURLMissing(r)
        /\ pc[r] = "rejected"
        /\ thrown[r] = AuthPageURLError

(***************************************************************************)
(* C8                                                                      *)
(***************************************************************************)
\* Event a occurs, and before the first occurrence of event b.
Precedes(r, a, b) == Occurs(r, a) /\ Pos(r, a) < Pos(r, b)

\* The AuthUser was resolved, by createAuthUser or by a verifyIdToken call
\* that has resolved, before the event.
ResolvedBefore(r, event) ==
    /\ Resolved(r)
    /\ Precedes(r, "createAuthUser", event) \/ Precedes(r, "verifyIdToken:resolved", event)
    /\ VerifierCalled(r) => Precedes(r, "verifyIdToken:resolved", event)

\* C8: within a request the AuthUser is resolved (the cookie read and, if
\* called, verifyIdToken settled) before the redirect checks are made, and
\* both redirect checks are made, with no redirect, before the composed
\* getServerSideProps is called; it never starts while verifyIdToken is
\* pending or before the redirect decision.
C8_PhasesOrdered ==
    \A r \in Requests :
        /\ Occurs(r, "checkUnauthed") =>
              /\ CookieRead(r)
              /\ ResolvedBefore(r, "checkUnauthed")
        /\ Occurs(r, "checkAuthed") =>
              Precedes(r, "checkUnauthed", "checkAuthed")
        /\ ProviderCalled(r) =>
              /\ Precedes(r, "checkUnauthed", "getServerSidePropsFunc:call")
              /\ Precedes(r, "checkAuthed", "getServerSidePropsFunc:call")
              /\ ResolvedBefore(r, "getServerSidePropsFunc:call")
              /\ ~ShouldRedirectToLogin(AuthUser[r], policy)
              /\ ~ShouldRedirectToApp(AuthUser[r], policy)
              /\ "redirect" \notin DOMAIN result[r]
              /\ thrown[r] = Null
        /\ pc[r] = "verifying" =>
              /\ ~Occurs(r, "checkUnauthed")
              /\ ~ProviderCalled(r)

\* A request whose id token was verified and whose composed
\* getServerSideProps was then called.
C8_Witness ==
    \E r \in Requests :
        /\ Occurs(r, "verifyIdToken:resolved")
        /\ ProviderCalled(r)
        /\ pc[r] = "awaitProvider"

(***************************************************************************)
(* C9                                                                      *)
(***************************************************************************)
\* The redirect policy yields a redirect for the resolved AuthUser.
RedirectDecided(r) ==
    \/ /\ Resolved(r)
       /\ ShouldRedirectToLogin(AuthUser[r], policy)
       /\ Truthy(AuthRedirectDestination(policy, config))
    \/ /\ Resolved(r)
       /\ ShouldRedirectToApp(AuthUser[r], policy)
       /\ Truthy(AppRedirectDestination(policy, config))

\* C9: the composed getServerSideProps is called exactly once in a request
\* that returns props when one was supplied, and never in a request for
\* which the policy decides a redirect; an authenticated AuthUser under
\* whenAuthed = RENDER is not redirected and the function is called once.
C9_ProviderCalledOnce ==
    \A r \in Requests :
        /\ Count(r, "getServerSidePropsFunc:call") <= 1
        /\ RedirectDecided(r) => Count(r, "getServerSidePropsFunc:call") = 0
        /\ IsRedirect(r) => Count(r, "getServerSidePropsFunc:call") = 0
        /\ IsProps(r) =>
              Count(r, "getServerSidePropsFunc:call") = (IF hasProvider THEN 1 ELSE 0)
        /\ (Finished(r) /\ Authenticated(r) /\ policy.whenAuthed = RENDER) =>
              /\ IsProps(r)
              /\ hasProvider => Count(r, "getServerSidePropsFunc:call") = 1

\* An authenticated request under whenAuthed = RENDER that returned props
\* after one call of the composed getServerSideProps.
C9_Witness ==
    \E r \in Requests :
        /\ Authenticated(r)
        /\ policy.whenAuthed = RENDER
        /\ hasProvider
        /\ IsProps(r)
        /\ Count(r, "getServerSidePropsFunc:call") = 1

(***************************************************************************)
(* C10                                                                     *)
(***************************************************************************)
\* The tokens cookie was parsed to an object, whose fields creds[r] holds.
PayloadParsed(r) ==
    /\ Occurs(r, "JSON.parse")
    /\ thrown[r] \notin {"SyntaxError", "TypeError"}

PastBranch(r) == pc[r] \notin {"idle", "getCookie", "parse", "branch"}

\* C10 (as stated): a parsed payload that lacks the idToken field or the
\* refreshToken field is no credential: verifyIdToken is not called and the
\* unauthenticated AuthUser is produced.
C10_EitherFieldMissingIsNoCredential ==
    \A r \in Requests :
        (PayloadParsed(r)
            /\ (creds[r].idToken = Undefined \/ creds[r].refreshToken = Undefined)) =>
            /\ ~VerifierCalled(r)
            /\ PastBranch(r) => AuthUser[r] = UnauthedUser

\* C10 (amended): a parsed payload that lacks the idToken field is no
\* credential: verifyIdToken is not called and the unauthenticated AuthUser
\* is produced, whether or not it has a refreshToken. A payload with an
\* idToken and no refreshToken is a credential: verifyIdToken is called
\* with it.
C10_MissingIdTokenIsNoCredential ==
    \A r \in Requests :
        PayloadParsed(r) =>
            /\ creds[r].idToken = Undefined =>
                  /\ ~VerifierCalled(r)
                  /\ PastBranch(r) => AuthUser[r] = UnauthedUser
            /\ (Truthy(creds[r].idToken) /\ creds[r].refreshToken = Undefined
                    /\ PastBranch(r)) =>
                  VerifierCalled(r)

\* A request whose payload has a refreshToken and no idToken, rendered as
\* anonymous.
C10_Witness ==
    \E r \in Requests :
        /\ PayloadParsed(r)
        /\ creds[r].idToken = Undefined
        /\ creds[r].refreshToken = RefreshTokenValid
        /\ IsProps(r)
        /\ AuthUser[r] = UnauthedUser

C12_VerifierCalledAtMostOnce ==
    \A r \in Requests :
        /\ Count(r, "verifyIdToken:call") <= 1
        /\ Count(r, "verifyIdToken:resolved") + Count(r, "verifyIdToken:rejected")
              <= Count(r, "verifyIdToken:call")
        /\ VerifierCalled(r) => (useToken /\ Truthy(creds[r].idToken))
        /\ \A i, j \in DOMAIN trace[r] :
              (trace[r][i] = "verifyIdToken:rejected" /\ trace[r][j] = "verifyIdToken:call")
                  => j < i

\* A request whose single verifyIdToken call failed.
C12_Witness ==
    \E r \in Requests :
        /\ Occurs(r, "verifyIdToken:rejected")
        /\ Count(r, "verifyIdToken:call") = 1
        /\ Finished(r)

(***************************************************************************)
(* C13                                                                     *)
(***************************************************************************)
\* All that the handler holds for one request.
RequestState(r) ==
    << pc[r], cookieValStr[r], creds[r], AuthUser[r], AuthUserSerialized[r],
       composedProps[r], ctxAuthUser[r], result[r], thrown[r], trace[r] >>

\* What request r would end with when run alone on what it brought.
AloneOutcome(r) ==
    HandleAlone(cookieValStr[r], ~Occurs(r, "verifyIdToken:rejected"), composedProps[r])

\* Every finished request ended as it would have alone.
EndsAsAlone ==
    \A r \in Requests :
        Finished(r) =>
            Outcome(result[r], thrown[r], ctxAuthUser[r]) = AloneOutcome(r)

\* A step writes the state of one request only, and never the policy, the
\* mode, the provider or the configuration.
StepWritesOneRequest ==
    /\ handlerVars' = handlerVars
    /\ \A r, q \in Requests :
          (r # q /\ RequestState(r)' # RequestState(r))
              => RequestState(q)' = RequestState(q)

\* C13: under any interleaving of two concurrent requests of the one
\* handler, each request's result (redirect, props or error) and the
\* AuthUser put in its own context are what the request yields when run
\* alone; no step of a request writes the state of the other, and the
\* policy and the configuration are never modified.
C13_RequestsIndependent ==
    []EndsAsAlone /\ [][StepWritesOneRequest]_vars

\* Two requests whose steps interleaved, one ending authenticated and the
\* other anonymous.
C13_Witness ==
    /\ Finished("r1") /\ Finished("r2")
    /\ Authenticated("r1") /\ Occurs("r1", "verifyIdToken:resolved")
    /\ Anonymous("r2")
    /\ IsProps("r1") /\ IsProps("r2")
    /\ result["r1"] # result["r2"]

(***************************************************************************)
(* C14                                                                     *)
(***************************************************************************)
ConfigurationError(r) == thrown[r] \in {AuthPageURLError, AppPageURLError}

\* C14: every request that completes without a configuration error returns
\* exactly one of the two result variants: a redirect (destination and
\* permanent, no props) or props (no redirect), never both, never neither.
C14_ExactlyOneVariant ==
    \A r \in Requests :
        (Finished(r) /\ ~ConfigurationError(r)) =>
            \/ /\ DOMAIN result[r] = {"redirect"}
               /\ DOMAIN result[r].redirect = {"destination", "permanent"}
            \/ DOMAIN result[r] = {"props"}

(***************************************************************************)
(* C15                                                                     *)
(***************************************************************************)
\* C15: every redirect the handler returns has permanent = false and a
\* destination that is a non-empty URL, neither null nor undefined nor "".
C15_RedirectWellFormed ==
    \A r \in Requests :
        "redirect" \in DOMAIN result[r] =>
            /\ result[r].redirect.permanent = FALSE
            /\ result[r].redirect.destination \notin {Null, Undefined, ""}

\* A redirect to the global login URL under a policy whose own login URL
\* is the empty string.
C15_Witness ==
    \E r \in Requests :
        /\ IsRedirect(r)
        /\ policy.authPageURL = ""
        /\ result[r].redirect.destination = config.authPageURL

(***************************************************************************)
(* C16                                                                     *)
(***************************************************************************)
LoginURLs == {policy.authPageURL, config.authPageURL}

AppURLs == {policy.appPageURL, config.appPageURL}

\* C16: the unauthenticated check is made before the authenticated check
\* and at most one of them redirects: an authenticated request is never
\* sent to a login URL (it is redirected only by the authenticated check,
\* to an app URL), an anonymous request is never sent to an app URL (it is
\* redirected only by the unauthenticated check, to a login URL), also
\* under a policy that sets both redirects.
C16_ChecksExclusive ==
    \A r \in Requests :
        /\ Occurs(r, "checkAuthed") => Precedes(r, "checkUnauthed", "checkAuthed")
        /\ (IsRedirect(r) /\ Authenticated(r)) =>
              /\ policy.whenAuthed = REDIRECT_TO_APP
              /\ Occurs(r, "checkAuthed")
              /\ result[r].redirect.destination \in AppURLs
              /\ result[r].redirect.destination \notin LoginURLs
        /\ (IsRedirect(r) /\ Anonymous(r)) =>
              /\ policy.whenUnauthed = REDIRECT_TO_LOGIN
              /\ ~Occurs(r, "checkAuthed")
              /\ result[r].redirect.destination \in LoginURLs
              /\ result[r].redirect.destination \notin AppURLs

\* An authenticated request sent to the app under a policy that sets both
\* redirects and has a login URL.
C16_Witness ==
    \E r \in Requests :
        /\ policy.whenUnauthed = REDIRECT_TO_LOGIN
        /\ policy.whenAuthed = REDIRECT_TO_APP
        /\ Truthy(AuthRedirectDestination(policy, config))
        /\ Authenticated(r)
        /\ IsRedirect(r)
        /\ result[r].redirect.destination \in AppURLs

(***************************************************************************)
(* C17                                                                     *)
(***************************************************************************)
NoLoginURL == ~Truthy(policy.authPageURL) /\ ~Truthy(config.authPageURL)

NoAppURL == ~Truthy(policy.appPageURL) /\ ~Truthy(config.appPageURL)

\* C17: a missing URL is an error only for the redirect the resolved
\* AuthUser calls for. With whenUnauthed = REDIRECT_TO_LOGIN and no login
\* URL, an authenticated request does not fail for it: it renders, or is
\* redirected to the app, as whenAuthed says. With whenAuthed =
\* REDIRECT_TO_APP and no app URL, an anonymous request does not fail for
\* it: it renders, or is redirected to the login page, as whenUnauthed says.
C17_MissingURLOnlyFatalWhenMandated ==
    \A r \in Requests :
        /\ (Finished(r) /\ Authenticated(r)
                /\ policy.whenUnauthed = REDIRECT_TO_LOGIN /\ NoLoginURL) =>
              /\ thrown[r] # AuthPageURLError
              /\ policy.whenAuthed = RENDER => IsProps(r)
              /\ (policy.whenAuthed = REDIRECT_TO_APP /\ ~NoAppURL) =>
                    RedirectsTo(r, AppRedirectDestination(policy, config))
        /\ (Finished(r) /\ Anonymous(r)
                /\ policy.whenAuthed = REDIRECT_TO_APP /\ NoAppURL) =>
              /\ thrown[r] # AppPageURLError
              /\ policy.whenUnauthed = RENDER => IsProps(r)
              /\ (policy.whenUnauthed = REDIRECT_TO_LOGIN /\ ~NoLoginURL) =>
                    RedirectsTo(r, AuthRedirectDestination(policy, config))

\* An authenticated request that rendered although the policy redirects
\* anonymous users to a login URL that is configured nowhere.
C17_Witness ==
    \E r \in Requests :
        /\ Authenticated(r)
        /\ policy.whenUnauthed = REDIRECT_TO_LOGIN
        /\ NoLoginURL
        /\ IsProps(r)

====
